---- MODULE Spec2Model ----
(***************************************************************************)
(* Worker Manager of voice-insight-api (src/src/worker_manager.py).        *)
(*                                                                         *)
(* The manager runs on one asyncio event loop: a handler runs atomically   *)
(* from one await to the next.  stop_worker, touch_worker, stop_all,       *)
(* get_status and the body of a reaper sweep contain no await, so each is  *)
(* one action.  spawn_worker awaits the lock and, inside                   *)
(* _wait_for_worker, the health request and the sleep between polls, so it *)
(* is split there.  Memory is in tenths of a GB, time in abstract ticks.   *)
(***************************************************************************)
EXTENDS Integers, Sequences, FiniteSets, TLC

\* ------------------------------------------------------------------ bounds
MaxTime == 1        \* the clock runs 0..MaxTime
MaxPorts == 3       \* ports handed out in one run
MaxLaunch == 2      \* processes launched in one run
MaxReq == 1         \* cap on request_count

\* ------------------------------------------------- configuration constants
BasePort == 8211          \* WorkersConfig.base_port
IdleTimeout == 0          \* WorkersConfig.idle_timeout_seconds, in ticks
StartupTimeout == 1       \* WorkersConfig.startup_timeout, in ticks
SafetyMargin == 20        \* MemoryConfig.safety_margin_gb = 2.0

\* Aliases a request may name; "ghost" is in no configuration.
Aliases == {"stt-fast", "tts-fast", "vision", "ghost"}

\* config.models: alias -> ModelConfig(type, path)
Models ==
  [a \in {"stt-fast", "tts-fast", "vision"} |->
     CASE a = "stt-fast"  -> [type |-> "stt", path |-> "mlx-community/whisper-large-v3-turbo"]
       [] a = "tts-fast"  -> [type |-> "tts", path |-> "Marvis-AI/marvis-tts-250m-v0.1"]
       [] a = "vision"    -> [type |-> "vlm", path |-> "acme/vision-7b"]]

\* MODEL_MEMORY_REQUIREMENTS (the entries the configured paths can hit)
MODEL_MEMORY_REQUIREMENTS ==
  [p \in {"mlx-community/whisper-large-v3-turbo",
          "mlx-community/whisper-large-v3-mlx",
          "mlx-community/distil-whisper-large-v3",
          "Marvis-AI/marvis-tts-250m-v0.1"} |->
     CASE p = "mlx-community/whisper-large-v3-turbo"  -> 15
       [] p = "mlx-community/whisper-large-v3-mlx"    -> 30
       [] p = "mlx-community/distil-whisper-large-v3" -> 12
       [] p = "Marvis-AI/marvis-tts-250m-v0.1"        -> 10]

\* get_model_memory_requirement: the table first, then the per-type default
\* (none of the configured paths outside the table holds a size keyword).
get_model_memory_requirement(model_path, model_type) ==
  IF model_path \in DOMAIN MODEL_MEMORY_REQUIREMENTS
    THEN MODEL_MEMORY_REQUIREMENTS[model_path]
    ELSE IF model_type = "stt" THEN 20
    ELSE IF model_type = "tts" THEN 10
    ELSE 20

\* get_memory_status().available_gb: what the host may report
AvailSet == {10, 35}

Callers == {"r1", "r2"}         \* concurrent POST /spawn requests
Clients == {"g1", "g2"}         \* concurrent requests to the gateway
NoCaller == "none"
Ports == BasePort .. (BasePort + MaxPorts - 1)

VARIABLES
  workers,     \* self.workers: the records, in dict (insertion) order
  next_port,   \* self._next_port
  lock,        \* holder of self._lock, or NoCaller
  waiters,     \* requests queued on self._lock, first come first
  calls,       \* each spawn request: where it is, what it asked for
  procs,       \* the OS processes launched, by the port they were given:
               \* whose alias, and "alive", "exited" (ended on its own)
               \* or "killed" (ended by stop_worker)
  now,         \* time.time()
  running,     \* self._running
  reaper,      \* the _monitor_idle_workers task: "sleeping" or "stopped"
  admit,       \* the _evict_for_memory run of the spawn under way (or of the
               \* last one that ended on ValueError): the memory reported,
               \* the memory needed, the records stopped in order
  last,        \* how the last /stop or /spawn request or reaper sweep ended
               \* (for a sweep, port is the number of "Evicting idle worker"
               \* lines it printed)
  gw,          \* the gateway's requests under way, one per client
  term,        \* the stop_worker call seen signal by signal: where it is,
               \* the alias and process it ends, the signals it has sent,
               \* and whether a /stop of the same alias came in meanwhile
  report,      \* the GET /status response being sent, if any
  sup,         \* the Supervisor.get_worker call under way: where it is,
               \* the request it is at the manager, the alias asked for,
               \* the port /spawn answered, and whether its /touch found
               \* the record of that port
  req          \* the gateway's configured API key (once its module is
               \* imported) and the HTTP request passing its middleware:
               \* path, Authorization and X-API-Key headers, the handler
               \* reached and the status answered

\* everything but the requests of the gateway's clients
manager_vars_but_req == <<workers, next_port, lock, waiters, calls, procs,
                          now, running, reaper, admit, last, term, report,
                          sup>>
manager_vars == <<manager_vars_but_req, req>>
vars == <<workers, next_port, lock, waiters, calls, procs, now, running,
          reaper, admit, last, gw, term, report, sup, req>>

\* ------------------------------------------------------------ dict helpers
Keys(ws) == {ws[i].alias : i \in 1..Len(ws)}
Has(ws, alias) == alias \in Keys(ws)
Get(ws, alias) == ws[CHOOSE i \in 1..Len(ws) : ws[i].alias = alias]
Pop(ws, alias) == SelectSeq(ws, LAMBDA w : w.alias # alias)
Put(ws, w) ==
  IF Has(ws, w.alias)
    THEN [i \in 1..Len(ws) |-> IF ws[i].alias = w.alias THEN w ELSE ws[i]]
    ELSE Append(ws, w)

\* WorkerProcess(...): started_at and last_used default to the time of
\* construction, request_count to 0
WorkerProcess(alias, port, model_path, model_type, memory_gb, t) ==
  [alias |-> alias, process |-> port, port |-> port,
   model_path |-> model_path, model_type |-> model_type,
   memory_gb |-> memory_gb, started_at |-> t, last_used |-> t,
   request_count |-> 0]

NoProc == [alias |-> "none", st |-> "none"]
Exited == [alias |-> "none", st |-> "exited"]
Killed == [alias |-> "none", st |-> "killed"]
\* a spawn request: pc, the alias asked for, the port and start time of the
\* worker it waits on, and (rival) whether it queued behind another
\* request for the same alias while the registry had no record of it
IdleCall == [pc |-> "idle", alias |-> "none", port |-> 0, start |-> 0,
             rival |-> FALSE]
NoAdmit == [avail |-> 0, needed |-> 0, evicted |-> <<>>]
Ret(ret, port) ==
  [ret |-> ret, port |-> port]
\* a gateway request: where its handler is, the model asked for, the port
\* of the worker obtained, and the response once it is sent
NoOut == [status |-> 0, body |-> "none"]
IdleGw == [pc |-> "idle", model |-> "none", port |-> 0, out |-> NoOut]
\* no stop_worker call is inside its try block
\* no GET /status response is being sent
NoReport == [made |-> FALSE, workers |-> {}]
NoTerm == [pc |-> "idle", pid |-> 0, alias |-> "none", sent |-> <<>>,
           queued |-> FALSE]
\* no get_worker call is under way
IdleSup == [pc |-> "idle", caller |-> NoCaller, alias |-> "none", port |-> 0,
            hit |-> FALSE]
\* the gateway module is not imported yet; strings are tuples of characters
NoReq == [pc |-> "import", api_key |-> <<>>, path |-> <<>>,
          authorization |-> <<>>, x_api_key |-> <<>>, handler |-> "none",
          status |-> 0]

Init ==
  /\ workers = <<>>
  /\ next_port = BasePort
  /\ lock = NoCaller
  /\ waiters = <<>>
  /\ calls = [c \in Callers |-> IdleCall]
  /\ procs = [p \in Ports |-> NoProc]
  /\ now = 0
  /\ running = TRUE
  /\ reaper = "sleeping"
  /\ admit = NoAdmit
  /\ last = Ret("none", 0)
  /\ gw = [g \in Clients |-> IdleGw]
  /\ term = NoTerm
  /\ report = NoReport
  /\ sup = IdleSup
  /\ req = NoReq

\* ------------------------------------------------------------- stop_worker
\* The signalled process ends: SIGTERM, up to 5 s of wait, then SIGKILL and
\* wait; a process already gone raises ProcessLookupError, which is passed.
\* (mutant) no signal is sent
TerminateSkipped(ps, pid) == ps

Terminate(ps, pid) ==
  IF ps[pid].st = "alive" THEN [ps EXCEPT ![pid] = Killed] ELSE ps

\* (mutant) the process is signalled but the record is left in the dict
stop_worker_no_pop(st, alias) ==
  IF ~Has(st.workers, alias)
    THEN [workers |-> st.workers, procs |-> st.procs, ret |-> FALSE]
    ELSE [workers |-> st.workers,
          procs |-> Terminate(st.procs, Get(st.workers, alias).process),
          ret |-> TRUE]

\* (mutant) the process is signalled first and the record is popped only
\* afterwards: a process found already gone leaves its record in the dict
stop_worker_signal_first(st, alias) ==
  IF ~Has(st.workers, alias)
    THEN [workers |-> st.workers, procs |-> st.procs, ret |-> FALSE]
    ELSE IF st.procs[Get(st.workers, alias).process].st # "alive"
      THEN [workers |-> st.workers, procs |-> st.procs, ret |-> TRUE]
      ELSE [workers |-> Pop(st.workers, alias),
            procs |-> Terminate(st.procs, Get(st.workers, alias).process),
            ret |-> TRUE]

\* stop_worker on the pair (workers, procs): the new pair and the return value
stop_worker(st, alias) ==
  IF ~Has(st.workers, alias)
    THEN [workers |-> st.workers, procs |-> st.procs, ret |-> FALSE]
    ELSE [workers |-> Pop(st.workers, alias),
          procs |-> Terminate(st.procs, Get(st.workers, alias).process),
          ret |-> TRUE]

\* (mutant) a process found already gone ends the loop: the exception is
\* not passed, the aliases after it are never reached
RECURSIVE StopEachAborts(_, _)
StopEachAborts(st, aliases) ==
  IF aliases = <<>> THEN st
  ELSE LET gone == /\ Has(st.workers, Head(aliases))
                   /\ st.procs[Get(st.workers, Head(aliases)).process].st # "alive"
           r == stop_worker(st, Head(aliases))
           next == [workers |-> r.workers, procs |-> r.procs, ret |-> FALSE]
       IN IF gone THEN next ELSE StopEachAborts(next, Tail(aliases))

\* stop_worker called for each alias of a list, in order
RECURSIVE StopEach(_, _)
StopEach(st, aliases) ==
  IF aliases = <<>> THEN st
  ELSE LET r == stop_worker(st, Head(aliases)) IN
       StopEach([workers |-> r.workers, procs |-> r.procs, ret |-> FALSE],
                Tail(aliases))

Here == [workers |-> workers, procs |-> procs, ret |-> FALSE]

\* (mutant) a stop also cancels the spawn of the alias that is under way:
\* its process is signalled, its request ends and the lock is released
StopCancels(alias) ==
  /\ UNCHANGED <<gw, term, report, sup, req>>
  /\ running
  /\ UNCHANGED <<now, next_port, waiters, running, reaper, admit>>
  /\ LET r == stop_worker(Here, alias)
         spawning == {c \in Callers : calls[c].pc = "gating" /\ calls[c].alias = alias}
     IN /\ last' = Ret(IF r.ret \/ spawning # {} THEN "true" ELSE "false", 0)
        /\ workers' = r.workers
        /\ procs' = [p \in DOMAIN procs |->
                       IF \E c \in spawning : calls[c].port = p
                         THEN Terminate(r.procs, p)[p] ELSE r.procs[p]]
        /\ calls' = [c \in Callers |-> IF c \in spawning THEN IdleCall ELSE calls[c]]
        /\ lock' = IF spawning # {} THEN NoCaller ELSE lock

\* POST /stop/{alias}
Stop(alias) ==
  /\ UNCHANGED <<gw, term, report, sup, req>>
  /\ running
  /\ UNCHANGED <<now, next_port, lock, waiters, calls, running, reaper, admit>>
  /\ LET r == stop_worker(Here, alias) IN
       /\ last' = Ret(IF r.ret THEN "true" ELSE "false", 0)
       /\ workers' = r.workers
       /\ procs' = r.procs

\* ------------------------------------------------------------ touch_worker
\* (mutant) every record's timestamp is refreshed
touch_worker_all(ws, alias, t) ==
  IF Has(ws, alias)
    THEN [i \in 1..Len(ws) |->
            IF ws[i].alias = alias
              THEN [ws[i] EXCEPT !.last_used = t, !.request_count = @ + 1]
              ELSE [ws[i] EXCEPT !.last_used = t]]
    ELSE ws

\* (mutant) the record is stamped as if it had just been started
touch_worker_restarts(ws, alias, t) ==
  IF Has(ws, alias)
    THEN Put(ws, [Get(ws, alias) EXCEPT !.last_used = t, !.started_at = t,
                                        !.request_count = @ + 1])
    ELSE ws

touch_worker(ws, alias, t) ==
  IF Has(ws, alias)
    THEN Put(ws, [Get(ws, alias) EXCEPT !.last_used = t,
                                        !.request_count = @ + 1])
    ELSE ws

\* POST /touch/{alias}
DoTouch(alias) ==
  /\ running
  /\ UNCHANGED <<now, last, next_port, lock, waiters, calls, procs, running,
                 reaper, admit>>
  /\ Has(workers, alias) => Get(workers, alias).request_count < MaxReq
  /\ workers' = touch_worker(workers, alias, now)

\* the same for a request that is not part of the get_worker call followed
Touch(alias) ==
  /\ UNCHANGED <<gw, term, report, sup, req>>
  /\ DoTouch(alias)

\* ------------------------------------------------------ _evict_for_memory
\* sorted(self.workers.values(), key=lambda w: w.last_used): a stable sort,
\* so records with equal last_used keep their dict order
\* (mutant) no sort: the records in dict order
DictOrder(ws) == ws

RECURSIVE SortedByLastUsed(_)
SortedByLastUsed(ws) ==
  IF ws = <<>> THEN <<>>
  ELSE LET i == CHOOSE k \in 1..Len(ws) :
                  /\ \A j \in 1..Len(ws) : ws[k].last_used <= ws[j].last_used
                  /\ \A j \in 1..(k - 1) : ws[j].last_used > ws[k].last_used
       IN <<ws[i]>> \o SortedByLastUsed(Pop(ws, ws[i].alias))

\* the for loop: stop the head while available < needed_gb
RECURSIVE EvictLoop(_, _, _)
EvictLoop(sorted_workers, available, needed_gb) ==
  IF sorted_workers = <<>> \/ available >= needed_gb THEN <<>>
  ELSE <<Head(sorted_workers)>> \o
       EvictLoop(Tail(sorted_workers),
                 available + Head(sorted_workers).memory_gb, needed_gb)

\* (mutant) the loop has no break: once anything must go, everything goes
VictimsNoBreak(ws, available_gb, needed_gb) ==
  IF available_gb - SafetyMargin >= needed_gb THEN <<>>
  ELSE SortedByLastUsed(ws)

\* the records _evict_for_memory stops, in the order it stops them
Victims(ws, available_gb, needed_gb) ==
  IF available_gb - SafetyMargin >= needed_gb THEN <<>>
  ELSE EvictLoop(SortedByLastUsed(ws), available_gb - SafetyMargin, needed_gb)

AliasesOf(ws) == [i \in 1..Len(ws) |-> ws[i].alias]

\* what the log keeps of each record stopped
Logged(ws) ==
  [i \in 1..Len(ws) |-> [alias |-> ws[i].alias, last_used |-> ws[i].last_used,
                         memory_gb |-> ws[i].memory_gb]]

\* ------------------------------------------------------------ spawn_worker
\* (mutant) the counter is read but not advanced
_get_next_port_stuck(np) == [port |-> np, next |-> np]

\* _get_next_port: the port handed out and the new value of _next_port
_get_next_port(np) == [port |-> np, next |-> np + 1]

\* _get_worker_command raises ValueError for a type that is neither
KnownType(model_type) == model_type \in {"stt", "tts"}

\* (mutant) the reuse is counted as a request, as touch_worker does
ReuseCounts(c, alias) ==
  /\ workers' = Put(workers, [Get(workers, alias) EXCEPT !.last_used = now,
                                                        !.request_count = @ + 1])
  /\ last' = Ret("ok", Get(workers, alias).port)
  /\ calls' = [calls EXCEPT ![c] = IdleCall]
  /\ lock' = NoCaller
  /\ UNCHANGED <<next_port, procs, admit>>

\* the existing worker is returned
Reuse(c, alias) ==
  /\ workers' = Put(workers, [Get(workers, alias) EXCEPT !.last_used = now])
  /\ last' = Ret("ok", Get(workers, alias).port)
  /\ calls' = [calls EXCEPT ![c] = IdleCall]
  /\ lock' = NoCaller
  /\ UNCHANGED <<next_port, procs, admit>>

\* (mutant) the alias is looked up only after a port was taken
NotFoundAfterPort(c, alias) ==
  /\ last' = Ret("notfound", 0)
  /\ calls' = [calls EXCEPT ![c] = IdleCall]
  /\ lock' = NoCaller
  /\ next_port' = next_port + 1
  /\ UNCHANGED <<workers, procs, admit>>

\* HTTPException(status_code=404)
NotFound(c, alias) ==
  /\ last' = Ret("notfound", 0)
  /\ calls' = [calls EXCEPT ![c] = IdleCall]
  /\ lock' = NoCaller
  /\ UNCHANGED <<workers, next_port, procs, admit>>

\* (mutant) an unknown kind is found before anything is done: nothing is
\* evicted and no port is taken for it
AdmitRollsBack(c, alias) ==
  \E available_gb \in AvailSet :
    LET model_config == Models[alias]
        memory_needed == get_model_memory_requirement(model_config.path,
                                                      model_config.type)
        victims == Victims(workers, available_gb, memory_needed)
        st == StopEach(Here, AliasesOf(victims))
        port == _get_next_port(next_port).port
    IN
      IF ~KnownType(model_config.type) THEN
        /\ admit' = [avail |-> available_gb, needed |-> memory_needed,
                     evicted |-> <<>>]
        /\ last' = Ret("badkind", 0)
        /\ calls' = [calls EXCEPT ![c] = IdleCall]
        /\ lock' = NoCaller
        /\ UNCHANGED <<workers, procs, next_port>>
      ELSE
        /\ admit' = [avail |-> available_gb, needed |-> memory_needed,
                     evicted |-> Logged(victims)]
        /\ workers' = st.workers
        /\ next_port' = _get_next_port(next_port).next
        /\ procs' = [st.procs EXCEPT ![port] =
                       [alias |-> alias, st |-> "alive"]]
        /\ calls' = [calls EXCEPT ![c] =
                       [pc |-> "gating", alias |-> alias, port |-> port,
                        start |-> now, rival |-> calls[c].rival]]
        /\ lock' = c
        /\ UNCHANGED last

\* _evict_for_memory, _get_next_port, _get_worker_command, Popen and
\* WorkerProcess(...), up to the first await of _wait_for_worker
Admit(c, alias) ==
  \E available_gb \in AvailSet :
    LET model_config == Models[alias]
        memory_needed == get_model_memory_requirement(model_config.path,
                                                      model_config.type)
        victims == Victims(workers, available_gb, memory_needed)
        st == StopEach(Here, AliasesOf(victims))
        port == _get_next_port(next_port).port
    IN
      /\ admit' = [avail |-> available_gb, needed |-> memory_needed,
                   evicted |-> Logged(victims)]
      /\ workers' = st.workers
      /\ next_port' = _get_next_port(next_port).next
      /\ IF ~KnownType(model_config.type) THEN
           \* ValueError out of _get_worker_command
           /\ procs' = st.procs
           /\ last' = Ret("badkind", 0)
           /\ calls' = [calls EXCEPT ![c] = IdleCall]
           /\ lock' = NoCaller
         ELSE
           /\ procs' = [st.procs EXCEPT ![port] =
                          [alias |-> alias, st |-> "alive"]]
           /\ calls' = [calls EXCEPT ![c] =
                          [pc |-> "gating", alias |-> alias, port |-> port,
                           start |-> now, rival |-> calls[c].rival]]
           /\ lock' = c
           /\ UNCHANGED last

\* (mutant) the registry is not looked at: a new worker is always started
SpawnBodyNoReuse(c, alias) ==
  IF alias \notin DOMAIN Models THEN NotFound(c, alias)
  ELSE Admit(c, alias)

\* The body under the lock, up to the first await of _wait_for_worker.
SpawnBody(c, alias) ==
  IF Has(workers, alias) THEN Reuse(c, alias)
  ELSE IF alias \notin DOMAIN Models THEN NotFound(c, alias)
  ELSE Admit(c, alias)

Waiting == {c \in Callers : calls[c].pc = "waiting"}
Launchable(alias) == alias \in DOMAIN Models /\ KnownType(Models[alias].type)
Launched == {p \in Ports : procs[p].st # "none"}

\* the run stays within MaxPorts and MaxLaunch whatever the requests
\* already queued turn out to need (a request for an alias that has a
\* record needs a launch only if the record goes before its turn)
WithinBounds(alias) ==
  /\ next_port + Cardinality(Waiting) < BasePort + MaxPorts
  /\ (Launchable(alias) /\ ~Has(workers, alias)) =>
       Cardinality(Launched) +
       Cardinality({c \in Waiting : Launchable(calls[c].alias)}) < MaxLaunch

\* a request that queued for a record since removed stays within MaxLaunch
CanLaunch(alias) ==
  (Launchable(alias) /\ ~Has(workers, alias)) => Cardinality(Launched) < MaxLaunch

\* another request for the same alias is under way and no record exists
Rival(c, alias) ==
  /\ ~Has(workers, alias)
  /\ \E d \in Callers \ {c} :
       calls[d].pc \in {"waiting", "gating"} /\ calls[d].alias = alias

\* (mutant) no lock: the body runs at once whoever holds the lock
SpawnArriveUnlocked(c, alias) ==
  /\ UNCHANGED <<gw, term, report, sup, req>>
  /\ running
  /\ calls[c].pc = "idle"
  /\ WithinBounds(alias)
  /\ SpawnBody(c, alias)
  /\ UNCHANGED <<waiters, now, running, reaper>>

\* POST /spawn/{alias} arrives: the lock is taken at once when it is free and
\* nobody waits for it, else the request queues
DoSpawnArrive(c, alias) ==
  /\ running
  /\ calls[c].pc = "idle"
  /\ WithinBounds(alias)
  /\ IF lock = NoCaller /\ waiters = <<>>
       THEN /\ SpawnBody(c, alias)
            /\ UNCHANGED <<waiters, now, running, reaper>>
       ELSE /\ calls' = [calls EXCEPT ![c] =
                          [IdleCall EXCEPT !.pc = "waiting", !.alias = alias,
                                           !.rival = Rival(c, alias)]]
            /\ waiters' = Append(waiters, c)
            /\ UNCHANGED <<workers, next_port, lock, procs, now, running,
                           reaper, admit, last>>

\* the same for a request that is not part of the get_worker call followed
SpawnArrive(c, alias) ==
  /\ UNCHANGED <<gw, term, report, sup, req>>
  /\ DoSpawnArrive(c, alias)

\* the first waiter gets the released lock
DoSpawnAcquire(c) ==
  /\ lock = NoCaller
  /\ waiters # <<>>
  /\ Head(waiters) = c
  /\ CanLaunch(calls[c].alias)
  /\ waiters' = Tail(waiters)
  /\ SpawnBody(c, calls[c].alias)
  /\ UNCHANGED <<now, running, reaper>>

\* the same for a request that is not part of the get_worker call followed
SpawnAcquire(c) ==
  /\ UNCHANGED <<gw, term, report, sup, req>>
  /\ DoSpawnAcquire(c)

\* -------------------------------------------------------- _wait_for_worker
Gating(c) == calls[c].pc = "gating"
\* (mutant) the while condition never fails
InTimeForever(c) == TRUE

\* the while condition: time.time() - start < timeout
InTime(c) == now - calls[c].start < StartupTimeout

\* (mutant) the exception leaves spawn_worker without releasing the lock
GateDiedKeepsLock(c) ==
  /\ UNCHANGED <<gw, term, report, sup, req>>
  /\ Gating(c)
  /\ InTime(c)
  /\ procs[calls[c].port].st = "exited"
  /\ last' = Ret("startupfail", 0)
  /\ calls' = [calls EXCEPT ![c] = IdleCall]
  /\ admit' = NoAdmit
  /\ UNCHANGED <<workers, next_port, lock, waiters, procs, now, running,
                 reaper>>

\* worker.process.poll() is not None: RuntimeError("... died")
DoGateDied(c) ==
  /\ Gating(c)
  /\ InTime(c)
  /\ procs[calls[c].port].st = "exited"
  /\ last' = Ret("startupfail", 0)
  /\ calls' = [calls EXCEPT ![c] = IdleCall]
  /\ lock' = NoCaller
  /\ admit' = NoAdmit
  /\ UNCHANGED <<workers, next_port, waiters, procs, now, running, reaper>>

\* the same for a request that is not part of the get_worker call followed
GateDied(c) ==
  /\ UNCHANGED <<gw, term, report, sup, req>>
  /\ DoGateDied(c)

\* (mutant) the record is inserted without looking at the process or at
\* the answer of GET /health
GateReadyUnpolled(c) ==
  /\ UNCHANGED <<gw, term, report, sup, req>>
  /\ Gating(c)
  /\ InTime(c)
  /\ LET alias == calls[c].alias
         model_config == Models[alias]
         worker == WorkerProcess(alias, calls[c].port, model_config.path,
                     model_config.type,
                     get_model_memory_requirement(model_config.path,
                                                  model_config.type),
                     calls[c].start)
     IN /\ workers' = Put(workers, worker)
        /\ last' = Ret("ok", worker.port)
  /\ calls' = [calls EXCEPT ![c] = IdleCall]
  /\ lock' = NoCaller
  /\ admit' = NoAdmit
  /\ UNCHANGED <<next_port, waiters, procs, now, running, reaper>>

\* GET /health answered 200: the record is inserted and returned
DoGateReady(c) ==
  /\ Gating(c)
  /\ InTime(c)
  /\ procs[calls[c].port].st = "alive"
  /\ LET alias == calls[c].alias
         model_config == Models[alias]
         worker == WorkerProcess(alias, calls[c].port, model_config.path,
                     model_config.type,
                     get_model_memory_requirement(model_config.path,
                                                  model_config.type),
                     calls[c].start)
     IN /\ workers' = Put(workers, worker)
        /\ last' = Ret("ok", worker.port)
  /\ calls' = [calls EXCEPT ![c] = IdleCall]
  /\ lock' = NoCaller
  /\ admit' = NoAdmit
  /\ UNCHANGED <<next_port, waiters, procs, now, running, reaper>>

\* the same for a request that is not part of the get_worker call followed
GateReady(c) ==
  /\ UNCHANGED <<gw, term, report, sup, req>>
  /\ DoGateReady(c)

\* (mutant) the record was put in the dict before the wait and stays there
GateTimeoutLeavesRecord(c) ==
  /\ UNCHANGED <<gw, term, report, sup, req>>
  /\ Gating(c)
  /\ ~InTime(c)
  /\ LET alias == calls[c].alias
         model_config == Models[alias]
     IN workers' = Put(workers,
                       WorkerProcess(alias, calls[c].port, model_config.path,
                         model_config.type,
                         get_model_memory_requirement(model_config.path,
                                                      model_config.type),
                         calls[c].start))
  /\ last' = Ret("startupfail", 0)
  /\ calls' = [calls EXCEPT ![c] = IdleCall]
  /\ lock' = NoCaller
  /\ admit' = NoAdmit
  /\ UNCHANGED <<next_port, waiters, procs, now, running, reaper>>

\* the while condition fails: RuntimeError("... failed to start within ...")
DoGateTimeout(c) ==
  /\ Gating(c)
  /\ ~InTime(c)
  /\ last' = Ret("startupfail", 0)
  /\ calls' = [calls EXCEPT ![c] = IdleCall]
  /\ lock' = NoCaller
  /\ admit' = NoAdmit
  /\ UNCHANGED <<workers, next_port, waiters, procs, now, running, reaper>>

\* the same for a request that is not part of the get_worker call followed
GateTimeout(c) ==
  /\ UNCHANGED <<gw, term, report, sup, req>>
  /\ DoGateTimeout(c)

\* ---------------------------------------------------- _monitor_idle_workers
\* one pass of the loop body after the sleep; the loop ends when _running
\* is found false afterwards
\* (mutant) >= for >
to_evict_at_threshold(ws, t) ==
  AliasesOf(SelectSeq(ws, LAMBDA w : t - w.last_used >= IdleTimeout))

to_evict(ws, t) ==
  AliasesOf(SelectSeq(ws, LAMBDA w : t - w.last_used > IdleTimeout))

\* (mutant) the sweep deletes the idle records itself and signals nothing
SweepDropsRecords ==
  /\ UNCHANGED <<gw, term, report, sup, req>>
  /\ reaper = "sleeping"
  /\ workers' = SelectSeq(workers, LAMBDA w : ~(now - w.last_used > IdleTimeout))
  /\ reaper' = IF running THEN "sleeping" ELSE "stopped"
  /\ last' = Ret("swept", Len(to_evict(workers, now)))
  /\ UNCHANGED <<procs, next_port, lock, waiters, calls, now, running, admit>>

Sweep ==
  /\ UNCHANGED <<gw, term, report, sup, req>>
  /\ reaper = "sleeping"
  /\ LET r == StopEach(Here, to_evict(workers, now)) IN
       /\ workers' = r.workers
       /\ procs' = r.procs
  /\ reaper' = IF running THEN "sleeping" ELSE "stopped"
  /\ last' = Ret("swept", Len(to_evict(workers, now)))
  /\ UNCHANGED <<next_port, lock, waiters, calls, now, running, admit>>

\* ---------------------------------------------------------------- stop_all
\* (mutant) the dict is iterated while it shrinks: the loop ends after the
\* first record
stop_all_live_keys(st) ==
  StopEach(st, IF st.workers = <<>> THEN <<>> ELSE <<st.workers[1].alias>>)

stop_all(st) == StopEach(st, AliasesOf(st.workers))

\* POST /stop-all
StopAll ==
  /\ UNCHANGED <<gw, term, report, sup, req>>
  /\ running
  /\ LET r == stop_all(Here) IN
       /\ workers' = r.workers
       /\ procs' = r.procs
  /\ UNCHANGED <<next_port, lock, waiters, calls, now, running, reaper, admit,
                 last>>

\* the shutdown hook: _running = False, then stop_all()
Shutdown ==
  /\ UNCHANGED <<gw, term, report, sup, req>>
  /\ running
  /\ running' = FALSE
  /\ LET r == stop_all(Here) IN
       /\ workers' = r.workers
       /\ procs' = r.procs
  /\ UNCHANGED <<next_port, lock, waiters, calls, now, reaper, admit, last>>

\* -------------------------------------------------------------- get_status
get_status(ws) ==
  {[alias |-> ws[i].alias, port |-> ws[i].port, memory_gb |-> ws[i].memory_gb,
    request_count |-> ws[i].request_count] : i \in 1..Len(ws)}

\* GET /status
Status ==
  /\ running
  /\ UNCHANGED vars

\* ------------------------------------------------------------- environment
Gated == {calls[c].port : c \in {d \in Callers : calls[d].pc = "gating"}}
Owned == {workers[i].process : i \in 1..Len(workers)}

\* a worker process ends on its own (a process the manager has lost track
\* of is never looked at again, so its end is left out)
ProcExit(p) ==
  /\ UNCHANGED <<gw, term, report, sup, req>>
  /\ p \in Gated \cup Owned
  /\ procs[p].st = "alive"
  /\ procs' = [procs EXCEPT ![p] = Exited]
  /\ UNCHANGED <<workers, next_port, lock, waiters, calls, now, running,
                 reaper, admit, last>>

Tick ==
  /\ UNCHANGED <<gw, term, report, sup, req>>
  /\ now < MaxTime
  /\ now' = now + 1
  /\ UNCHANGED <<workers, next_port, lock, waiters, calls, procs, running,
                 reaper, admit, last>>

Next ==
  \/ \E c \in Callers, a \in Aliases : SpawnArrive(c, a)
  \/ \E c \in Callers : SpawnAcquire(c)
  \/ \E c \in Callers : GateDied(c)
  \/ \E c \in Callers : GateReady(c)
  \/ \E c \in Callers : GateTimeout(c)
  \/ \E a \in Aliases : Stop(a)
  \/ \E a \in Aliases : Touch(a)
  \/ Sweep
  \/ StopAll
  \/ Status
  \/ \E p \in Ports : ProcExit(p)
  \/ Tick

Spec == Init /\ [][Next]_vars

\* the same with the shutdown hook
NextShutdown == Next \/ Shutdown
SpecShutdown == Init /\ [][NextShutdown]_vars

\* The same with the progress the code makes by itself: time passes, the
\* loop of _wait_for_worker comes back to its while condition (each pass
\* lasts at most the 2 s of the health request plus the 0.5 s sleep), and
\* the reaper task wakes from each sleep and sweeps.
SpecFair ==
  /\ Spec
  /\ WF_vars(Tick)
  /\ \A c \in Callers : WF_vars(GateTimeout(c))
  /\ WF_vars(Sweep)

\* _wait_for_worker is left, one way or another
GateEnds(c) == GateDied(c) \/ GateReady(c) \/ GateTimeout(c)

\* request c is the first in the queue of a free lock (and the bounds of
\* the run leave room for what it asks): when SpawnAcquire(c) can happen
CanAcquire(c) ==
  /\ lock = NoCaller
  /\ waiters # <<>>
  /\ Head(waiters) = c
  /\ CanLaunch(calls[c].alias)

\* The same with the progress of spawn_worker: a released lock goes to the
\* request that waited longest (asyncio.Lock wakes its first waiter), and
\* every health gate ends.  The first is weak fairness of SpawnAcquire(c),
\* written with CanAcquire(c) for ENABLED <<SpawnAcquire(c)>>_vars.
SpecProgress ==
  /\ Spec
  /\ \A c \in Callers :
       []<>(~CanAcquire(c)) \/ []<><<SpawnAcquire(c)>>_vars
  /\ \A c \in Callers : WF_vars(GateEnds(c))

\* ==================================================================
\* GET /status with its response kept while it is sent.
\* ==================================================================
\* (mutant) reading the status counts as a use of every worker
StatusCallTouches ==
  /\ running
  /\ report = NoReport
  /\ report' = [made |-> TRUE, workers |-> get_status(workers)]
  /\ workers' = [k \in 1..Len(workers) |-> [workers[k] EXCEPT !.last_used = now]]
  /\ UNCHANGED <<next_port, lock, waiters, calls, procs, now, running, reaper,
                 admit, last, gw, term, sup, req>>

\* get_status() builds the response from self.workers
StatusCall ==
  /\ running
  /\ report = NoReport
  /\ report' = [made |-> TRUE, workers |-> get_status(workers)]
  /\ UNCHANGED <<workers, next_port, lock, waiters, calls, procs, now, running,
                 reaper, admit, last, gw, term, sup, req>>

\* the response has gone out
StatusSent ==
  /\ report.made
  /\ report' = NoReport
  /\ UNCHANGED <<workers, next_port, lock, waiters, calls, procs, now, running,
                 reaper, admit, last, gw, term, sup, req>>

\* get_status has no await: the response is built in one piece, and what
\* runs before it is sent does not change it
NextStatus ==
  \/ report = NoReport /\ Next
  \/ StatusCall
  \/ StatusSent

SpecStatus == Init /\ [][NextStatus]_vars

\* ==================================================================
\* stop_worker signal by signal (lines 168-188).  The call has no await:
\* from the pop to the return no other handler of the manager runs, only
\* the signalled process does.
\* ==================================================================
\* (mutant) SIGKILL at once, no graceful signal and no grace period
StopCallForceful(alias) ==
  /\ running
  /\ term.pc = "idle"
  /\ UNCHANGED <<gw, report, sup, req, now, next_port, lock, waiters, calls, running,
                 reaper, admit>>
  /\ IF ~Has(workers, alias)
       THEN /\ last' = Ret("false", 0)
            /\ UNCHANGED <<workers, procs, term>>
       ELSE LET pid == Get(workers, alias).process IN
            /\ workers' = Pop(workers, alias)
            /\ procs' = Terminate(procs, pid)
            /\ term' = [pc |-> "idle", pid |-> pid, alias |-> alias,
                         sent |-> <<"SIGKILL">>, queued |-> FALSE]
            /\ last' = Ret("true", 0)

\* stop_worker is called: False for an absent alias; else the record is
\* popped and SIGTERM goes to the process group.  A process that has
\* exited is still a zombie (nobody waited for it): the platform either
\* takes the signal, and wait() returns at once, or raises
\* ProcessLookupError, which is passed; True is returned either way.
StopCall(alias) ==
  /\ running
  /\ term.pc = "idle"
  /\ UNCHANGED <<gw, report, sup, req, now, next_port, lock, waiters, calls, running,
                 reaper, admit>>
  /\ IF ~Has(workers, alias)
       THEN /\ last' = Ret("false", 0)
            /\ UNCHANGED <<workers, procs, term>>
       ELSE LET pid == Get(workers, alias).process IN
            /\ workers' = Pop(workers, alias)
            /\ UNCHANGED procs
            /\ IF procs[pid].st = "alive"
                 THEN /\ term' = [pc |-> "grace", pid |-> pid, alias |-> alias,
                                  sent |-> <<"SIGTERM">>, queued |-> FALSE]
                      /\ UNCHANGED last
                 ELSE /\ \E sent \in {<<>>, <<"SIGTERM">>} :
                           term' = [pc |-> "idle", pid |-> pid, alias |-> alias,
                                    sent |-> sent, queued |-> FALSE]
                      /\ last' = Ret("true", 0)

\* worker.process.wait(timeout=5) returns: the process ended within the
\* grace period (or between the timeout and the second killpg, which then
\* raises ProcessLookupError); True is returned
GraceExit ==
  /\ term.pc = "grace"
  /\ procs' = Terminate(procs, term.pid)
  /\ term' = [term EXCEPT !.pc = "idle"]
  /\ last' = Ret("true", 0)
  /\ UNCHANGED <<gw, report, sup, req, workers, now, next_port, lock, waiters, calls,
                 running, reaper, admit>>

\* subprocess.TimeoutExpired: SIGKILL goes to the process group and
\* wait() returns once the process is gone; True is returned
GraceTimeout ==
  /\ term.pc = "grace"
  /\ procs[term.pid].st = "alive"
  /\ procs' = Terminate(procs, term.pid)
  /\ term' = [term EXCEPT !.pc = "idle", !.sent = Append(@, "SIGKILL")]
  /\ last' = Ret("true", 0)
  /\ UNCHANGED <<gw, report, sup, req, workers, now, next_port, lock, waiters, calls,
                 running, reaper, admit>>

\* a second POST /stop of the same alias comes in during the grace period:
\* the event loop is inside stop_worker, the request waits in the socket
StopArrives ==
  /\ term.pc = "grace"
  /\ ~term.queued
  /\ term' = [term EXCEPT !.queued = TRUE]
  /\ UNCHANGED <<gw, report, sup, req, workers, procs, last, now, next_port, lock,
                 waiters, calls, running, reaper, admit>>

\* the request that came in meanwhile is served: stop_worker runs for it
StopQueued ==
  /\ running
  /\ term.pc = "idle"
  /\ term.queued
  /\ LET r == stop_worker(Here, term.alias) IN
       /\ last' = Ret(IF r.ret THEN "true" ELSE "false", 0)
       /\ workers' = r.workers
       /\ procs' = r.procs
  /\ term' = [term EXCEPT !.queued = FALSE]
  /\ UNCHANGED <<gw, report, sup, req, now, next_port, lock, waiters, calls, running,
                 reaper, admit>>

\* what the event loop runs while no stop_worker call is under way
Between ==
  /\ term.pc = "idle"
  /\ \/ \E c \in Callers, a \in Aliases : SpawnArrive(c, a)
     \/ \E c \in Callers : SpawnAcquire(c)
     \/ \E c \in Callers : GateDied(c)
     \/ \E c \in Callers : GateReady(c)
     \/ \E c \in Callers : GateTimeout(c)
     \/ \E p \in Ports : ProcExit(p)
     \/ Tick

NextTerminate ==
  \/ Between
  \/ \E a \in Aliases : StopCall(a)
  \/ GraceExit
  \/ GraceTimeout
  \/ StopArrives
  \/ StopQueued

SpecTerminate == Init /\ [][NextTerminate]_vars

\* ==================================================================
\* The gateway (src/src/gateway/main.py) and its Supervisor
\* (src/src/core/supervisor.py).  The manager and the workers are on the
\* other side of HTTP: what they answer is an input of each step.
\* ==================================================================
\* the number of voices in each JSON body the gateway may send: its
\* built-in list, the list of the TTS worker's GET /voices, or FastAPI's
\* {"detail": "Not Found"}
VoicesIn ==
  [b \in {"default", "worker", "detail"} |->
     CASE b = "default" -> 7 [] b = "worker" -> 10 [] b = "detail" -> 0]

\* what a worker answers to GET /voices: only tts_worker has the route
WorkerVoices(model_type) ==
  IF model_type = "tts" THEN [status |-> 200, body |-> "worker"]
  ELSE [status |-> 404, body |-> "detail"]

\* _call_manager("POST", "/spawn/{alias}"): the JSON of a 200 (the manager
\* answers 200 only for an alias it can launch), else RuntimeError
SpawnAnswers(alias) ==
  {[ok |-> FALSE, port |-> 0]} \cup
  (IF Launchable(alias) THEN {[ok |-> TRUE, port |-> p] : p \in Ports} ELSE {})

\* the except branch of list_voices: the built-in voices, status 200
Fallback(g) ==
  gw' = [gw EXCEPT ![g] = [pc |-> "done", model |-> gw[g].model, port |-> 0,
                           out |-> [status |-> 200, body |-> "default"]]]

\* GET /v1/voices?model=...: list_voices starts and get_worker posts /spawn
ListVoices(g, model) ==
  /\ gw[g].pc = "idle"
  /\ gw' = [gw EXCEPT ![g] = [IdleGw EXCEPT !.pc = "spawn", !.model = model]]
  /\ UNCHANGED manager_vars

\* get_worker: the answer to /spawn is in; on success /touch is posted
Spawned(g) ==
  /\ gw[g].pc = "spawn"
  /\ \E result \in SpawnAnswers(gw[g].model) :
       IF result.ok
         THEN gw' = [gw EXCEPT ![g].pc = "touch", ![g].port = result.port]
         ELSE Fallback(g)
  /\ UNCHANGED manager_vars

\* get_worker: the answer to /touch is in; on success the worker is asked
\* for its voices
Touched(g) ==
  /\ gw[g].pc = "touch"
  /\ \E ok \in BOOLEAN :
       IF ok THEN gw' = [gw EXCEPT ![g].pc = "query"] ELSE Fallback(g)
  /\ UNCHANGED manager_vars

\* the GET /voices to the worker ends: response.json() is returned
\* whatever the status; a connection error falls to the except branch
VoicesAnswered(g) ==
  /\ gw[g].pc = "query"
  /\ \E reached \in BOOLEAN :
       LET response == WorkerVoices(Models[gw[g].model].type) IN
       IF reached
         THEN gw' = [gw EXCEPT ![g] =
                       [pc |-> "done", model |-> gw[g].model, port |-> 0,
                        out |-> [status |-> 200, body |-> response.body]]]
         ELSE Fallback(g)
  /\ UNCHANGED manager_vars

\* the client has its response
Responded(g) ==
  /\ gw[g].pc = "done"
  /\ gw' = [gw EXCEPT ![g] = IdleGw]
  /\ UNCHANGED manager_vars

NextGateway ==
  \/ \E g \in Clients, model \in Aliases : ListVoices(g, model)
  \/ \E g \in Clients : Spawned(g)
  \/ \E g \in Clients : Touched(g)
  \/ \E g \in Clients : VoicesAnswered(g)
  \/ \E g \in Clients : Responded(g)

SpecGateway == Init /\ [][NextGateway]_vars

\* ==================================================================
\* Supervisor.get_worker (src/src/core/supervisor.py, lines 50-68) seen
\* from the manager: one call is followed through its POST /spawn and its
\* POST /touch, while the manager serves whatever else comes in.
\* ==================================================================
\* the request the call has at the manager while /spawn is not answered
Mine == IF sup.pc = "spawn" THEN {sup.caller} ELSE {}

\* the record /spawn answered to the call s is in the registry ws
KeptIn(ws, s) == Has(ws, s.alias) /\ Get(ws, s.alias).port = s.port

\* after a step of its /spawn request c: not answered yet, answered 200
\* (result["port"] is kept and /touch comes next), or answered with an
\* error (_call_manager raises RuntimeError and get_worker is over)
AfterSpawn(c, alias) ==
  sup' = IF calls'[c].pc # "idle"
           THEN [IdleSup EXCEPT !.pc = "spawn", !.caller = c, !.alias = alias]
         ELSE IF last'.ret = "ok"
           THEN [IdleSup EXCEPT !.pc = "touch", !.alias = alias,
                                !.port = last'.port]
         ELSE IdleSup

\* get_worker(alias) is called: POST /spawn/{alias} reaches the manager
get_worker(c, alias) ==
  /\ UNCHANGED <<gw, term, report, req>>
  /\ sup.pc = "idle"
  /\ DoSpawnArrive(c, alias)
  /\ AfterSpawn(c, alias)

\* the manager goes on with the /spawn of the call
SpawnProceeds ==
  /\ UNCHANGED <<gw, term, report, req>>
  /\ sup.pc = "spawn"
  /\ \/ DoSpawnAcquire(sup.caller)
     \/ DoGateDied(sup.caller)
     \/ DoGateReady(sup.caller)
     \/ DoGateTimeout(sup.caller)
  /\ AfterSpawn(sup.caller, sup.alias)

\* (mutant) get_worker returns the worker without posting /touch
TouchSkipped ==
  /\ sup.pc = "touch"
  /\ sup' = [sup EXCEPT !.pc = "touched", !.hit = KeptIn(workers, sup)]
  /\ UNCHANGED <<workers, next_port, lock, waiters, calls, procs, now, running,
                 reaper, admit, last, gw, term, report, req>>

\* POST /touch/{alias} of the call is handled by the manager
TouchHandled ==
  /\ UNCHANGED <<gw, term, report, req>>
  /\ sup.pc = "touch"
  /\ DoTouch(sup.alias)
  /\ sup' = [sup EXCEPT !.pc = "touched", !.hit = KeptIn(workers, sup)]

\* the answer to /touch is back at the gateway: get_worker returns worker
Returned ==
  /\ sup.pc = "touched"
  /\ sup' = IdleSup
  /\ UNCHANGED <<workers, next_port, lock, waiters, calls, procs, now, running,
                 reaper, admit, last, gw, term, report, req>>

NextGetWorker ==
  \/ \E c \in Callers, a \in Aliases : get_worker(c, a)
  \/ SpawnProceeds
  \/ TouchHandled
  \/ Returned
  \/ \E c \in Callers \ Mine, a \in Aliases : SpawnArrive(c, a)
  \/ \E c \in Callers \ Mine : SpawnAcquire(c)
  \/ \E c \in Callers \ Mine : GateDied(c)
  \/ \E c \in Callers \ Mine : GateReady(c)
  \/ \E c \in Callers \ Mine : GateTimeout(c)
  \/ \E a \in Aliases : Stop(a)
  \/ \E a \in Aliases : Touch(a)
  \/ Sweep
  \/ StopAll
  \/ \E p \in Ports : ProcExit(p)
  \/ Tick

SpecGetWorker == Init /\ [][NextGetWorker]_vars

\* ==================================================================
\* api_key_auth_middleware of the gateway (src/src/gateway/main.py, lines
\* 83-110).  A string is the tuple of its characters.
\* ==================================================================
\* str.strip(), str.lower(), str.startswith() and s.split(" ", 1)[1]
RECURSIVE lstrip(_)
lstrip(s) == IF s # <<>> /\ Head(s) = " " THEN lstrip(Tail(s)) ELSE s

RECURSIVE rstrip(_)
rstrip(s) ==
  IF s # <<>> /\ s[Len(s)] = " " THEN rstrip(SubSeq(s, 1, Len(s) - 1)) ELSE s

strip(s) == rstrip(lstrip(s))

lower(s) ==
  [i \in 1..Len(s) |->
     CASE s[i] = "B" -> "b" [] s[i] = "E" -> "e" [] s[i] = "A" -> "a"
       [] s[i] = "R" -> "r" [] OTHER -> s[i]]

startswith(s, prefix) ==
  Len(s) >= Len(prefix) /\ SubSeq(s, 1, Len(prefix)) = prefix

\* what follows the first space of s (s has one)
split_1(s) ==
  LET i == CHOOSE k \in 1..Len(s) :
             s[k] = " " /\ \A j \in 1..(k - 1) : s[j] # " "
  IN SubSeq(s, i + 1, Len(s))

_DEFAULT_API_KEYS ==
  {<<"d", "e", "f", "a", "u", "l", "t", "-", "k", "e", "y">>,
   <<"d", "e", "f", "a", "u", "l", "t", "-", "k", "e", "y", "-",
     "c", "h", "a", "n", "g", "e", "-", "m", "e">>}

\* values gateway.api_key may be configured to: none, a key, the key with
\* blanks around it, blanks only, the default keys, a default key after a
\* blank
ConfiguredKeys ==
  {<<>>, <<"s", "k">>, <<" ", "s", "k", " ">>, <<" ", " ">>,
   <<" ", "d", "e", "f", "a", "u", "l", "t", "-", "k", "e", "y">>}
  \cup _DEFAULT_API_KEYS

\* request paths: /healthz, /v1/models, /v1/voices, /v1, /v2/models
Paths ==
  {<<"/", "h", "e", "a", "l", "t", "h", "z">>,
   <<"/", "v", "1", "/", "m", "o", "d", "e", "l", "s">>,
   <<"/", "v", "1", "/", "v", "o", "i", "c", "e", "s">>,
   <<"/", "v", "1">>,
   <<"/", "v", "2", "/", "m", "o", "d", "e", "l", "s">>}

\* Authorization headers: none, "Bearer sk", "bearer sk", "BEARER  sk ",
\* "Bearer no", "Bearer ", "Basic sk", "sk"
Authorizations ==
  {<<>>,
   <<"B", "e", "a", "r", "e", "r", " ", "s", "k">>,
   <<"b", "e", "a", "r", "e", "r", " ", "s", "k">>,
   <<"B", "E", "A", "R", "E", "R", " ", " ", "s", "k", " ">>,
   <<"B", "e", "a", "r", "e", "r", " ", "n", "o">>,
   <<"B", "e", "a", "r", "e", "r", " ">>,
   <<"B", "a", "s", "i", "c", " ", "s", "k">>,
   <<"s", "k">>}

\* X-API-Key headers: none, "sk", " sk ", "no"
XApiKeys == {<<>>, <<"s", "k">>, <<" ", "s", "k", " ">>, <<"n", "o">>}

\* the route table: the handler of each path that has one
Routes ==
  [p \in {<<"/", "h", "e", "a", "l", "t", "h", "z">>,
          <<"/", "v", "1", "/", "m", "o", "d", "e", "l", "s">>,
          <<"/", "v", "1", "/", "v", "o", "i", "c", "e", "s">>} |->
     CASE p = <<"/", "h", "e", "a", "l", "t", "h", "z">> -> "healthz"
       [] p = <<"/", "v", "1", "/", "m", "o", "d", "e", "l", "s">> -> "list_models"
       [] OTHER -> "list_voices"]

\* the credential the middleware compares: the Bearer token if there is
\* one, else the X-API-Key header
Provided(authorization, x_api_key) ==
  LET bearer == IF startswith(lower(authorization),
                              <<"b", "e", "a", "r", "e", "r", " ">>)
                  THEN strip(split_1(authorization)) ELSE <<>>
  IN IF bearer # <<>> THEN bearer ELSE strip(x_api_key)

\* (mutant) the configured key is compared as it stands, blanks included
api_key_auth_middleware_raw(config_key, path, authorization, x_api_key) ==
  IF ~startswith(path, <<"/", "v", "1", "/">>) THEN "call_next"
  ELSE IF config_key = <<>> \/ config_key \in _DEFAULT_API_KEYS
    THEN "call_next"
  ELSE IF Provided(authorization, x_api_key) # config_key THEN "401"
  ELSE "call_next"

\* api_key_auth_middleware: "401", or "call_next" for the request passed on
api_key_auth_middleware(config_key, path, authorization, x_api_key) ==
  LET api_key == strip(config_key) IN
  IF ~startswith(path, <<"/", "v", "1", "/">>) THEN "call_next"
  ELSE IF api_key = <<>> \/ api_key \in _DEFAULT_API_KEYS THEN "call_next"
  ELSE IF Provided(authorization, x_api_key) # api_key THEN "401"
  ELSE "call_next"

\* import of the gateway module: _config = get_config()
LoadConfig(key) ==
  /\ req.pc = "import"
  /\ req' = [req EXCEPT !.pc = "idle", !.api_key = key]
  /\ UNCHANGED <<manager_vars_but_req, gw>>

\* a request comes in and the middleware runs
Request(path, authorization, x_api_key) ==
  /\ req.pc = "idle"
  /\ req' =
       IF api_key_auth_middleware(req.api_key, path, authorization,
                                  x_api_key) = "401"
         THEN [req EXCEPT !.pc = "answered", !.path = path,
                          !.authorization = authorization,
                          !.x_api_key = x_api_key, !.status = 401]
         ELSE [req EXCEPT !.pc = "routed", !.path = path,
                          !.authorization = authorization,
                          !.x_api_key = x_api_key]
  /\ UNCHANGED <<manager_vars_but_req, gw>>

\* call_next: the router runs the handler of the path, or answers 404
Handle ==
  /\ req.pc = "routed"
  /\ req' = IF req.path \in DOMAIN Routes
              THEN [req EXCEPT !.pc = "answered",
                               !.handler = Routes[req.path], !.status = 200]
              ELSE [req EXCEPT !.pc = "answered", !.status = 404]
  /\ UNCHANGED <<manager_vars_but_req, gw>>

\* the response has gone out
Answered ==
  /\ req.pc = "answered"
  /\ req' = [NoReq EXCEPT !.pc = "idle", !.api_key = req.api_key]
  /\ UNCHANGED <<manager_vars_but_req, gw>>

NextAuth ==
  \/ \E key \in ConfiguredKeys : LoadConfig(key)
  \/ \E path \in Paths, authorization \in Authorizations,
        x_api_key \in XApiKeys : Request(path, authorization, x_api_key)
  \/ Handle
  \/ Answered

SpecAuth == Init /\ [][NextAuth]_vars

\* ==================================================================
\* The claims
\* ==================================================================
Footprint(alias) ==
  get_model_memory_requirement(Models[alias].path, Models[alias].type)

RECURSIVE SumMem(_)
SumMem(log) ==
  IF log = <<>> THEN 0 ELSE Head(log).memory_gb + SumMem(Tail(log))

Prefix(log, n) == SubSeq(log, 1, n)
LoggedAliases(log) == {log[i].alias : i \in 1..Len(log)}
Live(alias) == {p \in Ports : procs[p].st = "alive" /\ procs[p].alias = alias}

\* the step runs the body of spawn_worker for request c and alias a
BodyRuns(c, a) ==
  \/ lock = NoCaller /\ waiters = <<>> /\ SpawnArrive(c, a)
  \/ calls[c].alias = a /\ SpawnAcquire(c)

\* the step runs _evict_for_memory (each run takes the next port afterwards)
Admission == next_port' # next_port

\* C1 (as claimed): No duplicate spawn.  A spawn request made while another
\* one for the same alias was under way and no record existed never leads
\* to two live processes started for that alias.
C1_NoDuplicateSpawn ==
  \A c \in Callers :
    (Gating(c) /\ calls[c].rival) => Cardinality(Live(calls[c].alias)) <= 1

\* C2 (as claimed): Memory-aware admission.  A process is launched only if
\* the memory reported, less the safety margin, plus the footprints of the
\* records evicted for it, covers the footprint of the alias.
C2_MemoryAwareAdmission ==
  \A c \in Callers :
    Gating(c) =>
      admit.avail - SafetyMargin + SumMem(admit.evicted) >= Footprint(calls[c].alias)

\* C3: LRU order respected.  In an admission the records are stopped in
\* ascending last_used order: whenever one is stopped, every record still
\* in the registry at that moment was used no earlier; and one is stopped
\* only while the headroom freed so far falls short of what is needed.
C3_LRUOrder ==
  [][Admission =>
       LET ev == admit'.evicted IN
         /\ Keys(workers') = Keys(workers) \ LoggedAliases(ev)
         /\ \A i \in 1..Len(ev) :
              /\ Has(workers, ev[i].alias)
              /\ ev[i].last_used = Get(workers, ev[i].alias).last_used
              /\ \A k \in 1..Len(workers) :
                   workers[k].alias \notin LoggedAliases(Prefix(ev, i - 1))
                     => workers[k].last_used >= ev[i].last_used
              /\ admit'.avail - SafetyMargin + SumMem(Prefix(ev, i - 1))
                   < admit'.needed]_vars

\* two records were stopped for one admission, the older one first
C3_Witness ==
  /\ Len(admit.evicted) = 2
  /\ admit.evicted[1].last_used < admit.evicted[2].last_used

\* C4: Idempotent stop.  stop on an absent alias answers false and changes
\* neither the registry, the port counter nor any process; stop on a
\* present alias removes the record and answers true; a record comes back
\* only through a spawn that passed its health gate, so a second stop with
\* no spawn in between answers false.
C4_IdempotentStop ==
  [][/\ \A a \in Aliases :
          Stop(a) =>
            IF Has(workers, a)
              THEN last'.ret = "true" /\ ~Has(workers', a)
              ELSE last'.ret = "false" /\ UNCHANGED <<workers, next_port, procs>>
     /\ \A a \in Aliases :
          (~Has(workers, a) /\ Has(workers', a)) =>
            \E c \in Callers : GateReady(c) /\ calls[c].alias = a]_vars

\* a stop has answered true: the registry is empty and the process is gone
C4_Witness ==
  /\ last.ret = "true"
  /\ workers = <<>>
  /\ procs[BasePort].st = "killed"

\* C5: Health-gate failure path.  While a spawn waits on the health gate no
\* record of its alias is in the registry; when the process is found dead
\* or the startup timeout runs out the request fails, the alias is still
\* absent, the lock is free and the request is over.
C5_HealthGateFailure ==
  /\ [](\A c \in Callers : Gating(c) => ~Has(workers, calls[c].alias))
  /\ [][\A c \in Callers :
          (GateDied(c) \/ GateTimeout(c)) =>
            /\ last'.ret = "startupfail"
            /\ ~Has(workers', calls[c].alias)
            /\ lock' = NoCaller
            /\ calls'[c].pc = "idle"
            /\ workers' = workers]_vars

\* after a failed startup a fresh spawn of the same alias is under way on
\* a new port
C5_Witness ==
  /\ last.ret = "startupfail"
  /\ \E c \in Callers :
       /\ Gating(c)
       /\ calls[c].port > BasePort
       /\ \E p \in Ports : p < calls[c].port /\ procs[p].st # "none"
       /\ ~Has(workers, calls[c].alias)

\* C6: Idle reaping threshold.  A sweep stops a record if and only if
\* now - last_used is strictly greater than the idle timeout.
C6_IdleThreshold ==
  [][Sweep =>
       \A k \in 1..Len(workers) :
         Has(workers', workers[k].alias)
           <=> ~(now - workers[k].last_used > IdleTimeout)]_vars

\* after a sweep one record idle for exactly the timeout is left and
\* another process has been stopped
C6_Witness ==
  /\ last = Ret("swept", 1)
  /\ Len(workers) = 1
  /\ now - workers[1].last_used = IdleTimeout
  /\ \E p \in Ports : procs[p].st = "killed"

\* C7: Touch frame.  touch on a present alias sets its last_used to now and
\* adds one to its request_count; every other field, every other record,
\* the set of aliases, the port counter and the processes stay as they
\* were; touch on an absent alias changes nothing.
C7_TouchFrame ==
  [][\A a \in Aliases :
       Touch(a) =>
         /\ UNCHANGED <<next_port, procs, lock, calls>>
         /\ AliasesOf(workers') = AliasesOf(workers)
         /\ \A k \in 1..Len(workers) :
              IF workers[k].alias = a
                THEN workers'[k] =
                       [workers[k] EXCEPT !.last_used = now,
                                          !.request_count = workers[k].request_count + 1]
                ELSE workers'[k] = workers[k]]_vars

\* one of two records has been touched, the other not
C7_Witness ==
  /\ Len(workers) = 2
  /\ workers[1].request_count = 1
  /\ workers[1].last_used > workers[2].last_used
  /\ workers[2].request_count = 0

\* C8 (as claimed): Registry/process agreement.  After a reaper sweep no
\* record is left whose process has exited.
C8_RegistryProcessAgreement ==
  [][Sweep =>
       \A k \in 1..Len(workers') : procs'[workers'[k].process].st = "alive"]_vars

\* C9 (as claimed): Serialized mutation.  While a spawn holds the lock no
\* removal and no touch takes effect.
C9_SerializedMutation ==
  [][(lock # NoCaller /\ lock' = lock) => workers' = workers]_vars

\* C10: Unknown alias.  spawn of an alias that is neither in the registry
\* nor in the configuration fails with 404, evicts nothing, takes no port,
\* launches nothing and leaves the lock free.
C10_UnknownAlias ==
  [][\A c \in Callers, a \in Aliases :
       (a \notin DOMAIN Models /\ ~Has(workers, a) /\ BodyRuns(c, a)) =>
         /\ last'.ret = "notfound"
         /\ UNCHANGED <<workers, next_port, procs>>
         /\ lock' = NoCaller
         /\ calls'[c].pc = "idle"]_vars

\* a 404 was answered while a record was there to evict
C10_Witness ==
  /\ last.ret = "notfound"
  /\ workers # <<>>

\* C11: Reuse.  A spawn that finds a record of its alias when it runs under
\* the lock answers with that record's port, sets the record's last_used
\* to now and changes nothing else: no other field, no other record, no
\* eviction log, no port taken, no process launched or ended.
C11_Reuse ==
  [][\A c \in Callers, a \in Aliases :
       (Has(workers, a) /\ BodyRuns(c, a)) =>
         /\ last' = Ret("ok", Get(workers, a).port)
         /\ Len(workers') = Len(workers)
         /\ \A k \in 1..Len(workers) :
              workers'[k] = IF workers[k].alias = a
                              THEN [workers[k] EXCEPT !.last_used = now]
                              ELSE workers[k]
         /\ UNCHANGED <<next_port, procs, admit>>
         /\ lock' = NoCaller
         /\ calls'[c].pc = "idle"]_vars

\* a record was reused after the clock moved: its last_used is later than
\* its started_at although it was never touched
C11_Witness ==
  /\ last.ret = "ok"
  /\ \E k \in 1..Len(workers) :
       /\ last.port = workers[k].port
       /\ workers[k].last_used > workers[k].started_at
       /\ workers[k].request_count = 0

\* C12: Port uniqueness.  No two records share a port; every port in use
\* lies between the base port and the counter; the counter never goes
\* back, and a process is launched on the counter's value, which is then
\* advanced by one.
C12_PortUniqueness ==
  /\ [](\A i, j \in 1..Len(workers) :
          i # j => workers[i].port # workers[j].port)
  /\ [](\A i \in 1..Len(workers) :
          /\ workers[i].port >= BasePort /\ workers[i].port < next_port
          /\ \A c \in Callers : Gating(c) => calls[c].port # workers[i].port)
  /\ [][/\ next_port' >= next_port
        /\ \A c \in Callers :
             (~Gating(c) /\ calls'[c].pc = "gating") =>
               calls'[c].port = next_port /\ next_port' = next_port + 1]_vars

\* two records, the second on the third port handed out: one port was
\* spent on a spawn that left no record and is not handed out again
C12_Witness ==
  /\ Len(workers) = 2
  /\ workers[1].port # workers[2].port
  /\ workers[2].port = BasePort + 2

\* the place of each alias in the ordering of the alias strings
AliasRank ==
  [a \in Aliases |->
     CASE a = "ghost" -> 1 [] a = "stt-fast" -> 2
       [] a = "tts-fast" -> 3 [] a = "vision" -> 4]

\* C13 (as claimed): Deterministic tie-break.  In an admission, a record is
\* stopped only after every record with the same last_used whose alias
\* sorts before its own, whatever the order the records were inserted in.
C13_DeterministicTieBreak ==
  [][Admission =>
       LET ev == admit'.evicted IN
         \A i \in 1..Len(ev) :
           \A k \in 1..Len(workers) :
             (/\ workers[k].last_used = ev[i].last_used
              /\ AliasRank[workers[k].alias] < AliasRank[ev[i].alias])
               => workers[k].alias \in LoggedAliases(Prefix(ev, i - 1))]_vars

\* the records a sweep at this moment selects
Selected == {k \in 1..Len(workers) : now - workers[k].last_used > IdleTimeout}

ProcessesOf(ws) == {ws[i].process : i \in 1..Len(ws)}

\* C15: Health-gated insertion.  The process a spawn is still waiting on
\* belongs to no record and shows in no status report; a record with a
\* new process enters the registry only in the step in which the spawn
\* waiting on that process, still within its startup time, finds it alive
\* and answering, and that step ends the spawn.
C15_HealthGatedInsertion ==
  /\ [](\A c \in Callers :
          Gating(c) =>
            /\ calls[c].port \notin ProcessesOf(workers)
            /\ \A s \in get_status(workers) : s.port # calls[c].port)
  /\ [][\A k \in 1..Len(workers') :
          workers'[k].process \notin ProcessesOf(workers) =>
            \E c \in Callers :
              /\ Gating(c)
              /\ InTime(c)
              /\ calls[c].port = workers'[k].process
              /\ calls[c].alias = workers'[k].alias
              /\ procs[calls[c].port].st = "alive"
              /\ calls'[c].pc = "idle"]_vars

\* one record is in the registry while the process of another alias,
\* alive and still being waited on, is not
C15_Witness ==
  /\ Len(workers) = 1
  /\ \E c \in Callers :
       /\ Gating(c)
       /\ procs[calls[c].port].st = "alive"
       /\ ~Has(workers, calls[c].alias)

\* C16: Stop-all.  When POST /stop-all has run, the registry is empty and
\* no process of a record that was registered is alive.
C16_StopAll ==
  [][StopAll =>
       /\ workers' = <<>>
       /\ \A k \in 1..Len(workers) : procs'[workers[k].process].st # "alive"]_vars

\* the last answer given was a successful spawn, and since then both
\* records have gone and both processes were ended, with no spawn under way
C16_Witness ==
  /\ last.ret = "ok"
  /\ workers = <<>>
  /\ lock = NoCaller
  /\ procs[BasePort].st = "killed"
  /\ procs[BasePort + 1].st = "killed"

\* C17 (as claimed): Voices fallback.  Every response to GET /v1/voices has
\* status 200 and a "voices" list that is not empty.
C17_VoicesFallback ==
  \A g \in Clients :
    gw[g].pc = "done" =>
      gw[g].out.status = 200 /\ VoicesIn[gw[g].out.body] > 0

\* C18: Just-enough eviction.  An admission whose headroom (memory
\* reported less the safety margin) covers the footprint stops nothing;
\* otherwise it stops records until the headroom with their footprints
\* added covers the footprint or no record is left, and the last record
\* it stopped was still needed.
C18_JustEnoughEviction ==
  [][Admission =>
       LET ev == admit'.evicted
           headroom == admit'.avail - SafetyMargin
           needed == admit'.needed
       IN /\ headroom >= needed => (ev = <<>> /\ workers' = workers)
          /\ headroom < needed =>
               (headroom + SumMem(ev) >= needed \/ workers' = <<>>)
          /\ ev # <<>> =>
               headroom + SumMem(Prefix(ev, Len(ev) - 1)) < needed
          /\ Len(workers') = Len(workers) - Len(ev)]_vars

\* an admission stopped one of two records and left the other, because
\* the first one's footprint was enough
C18_Witness ==
  /\ Len(admit.evicted) = 1
  /\ Len(workers) = 1
  /\ admit.avail - SafetyMargin + admit.evicted[1].memory_gb >= admit.needed
  /\ last.ret = "badkind"

\* C19: Single termination.  Whatever step removes a record (stop,
\* eviction, sweep or stop-all) leaves its process not alive in the same
\* step; a process is ended by the manager only in the step that removes
\* the record owning it; a process once ended by the manager stays so and
\* is owned by no record again.
C19_SingleTermination ==
  /\ [](\A k \in 1..Len(workers) : procs[workers[k].process].st # "killed")
  /\ [][/\ \A k \in 1..Len(workers) :
             workers[k].process \notin ProcessesOf(workers') =>
               procs'[workers[k].process].st # "alive"
        /\ \A p \in Ports :
             (procs[p].st # "killed" /\ procs'[p].st = "killed") =>
               /\ procs[p].st = "alive"
               /\ p \in ProcessesOf(workers)
               /\ p \notin ProcessesOf(workers')
        /\ \A p \in Ports :
             procs[p].st = "killed" =>
               procs'[p].st = "killed" /\ p \notin ProcessesOf(workers')]_vars

\* one record was stopped by an admission (which then failed on the
\* unknown type) and the other by a later POST /stop that answered true;
\* both processes were ended and no record is left
C19_Witness ==
  /\ Len(admit.evicted) = 1
  /\ lock = NoCaller
  /\ last.ret = "true"
  /\ workers = <<>>
  /\ procs[BasePort].st = "killed"
  /\ procs[BasePort + 1].st = "killed"

\* C20 (as claimed): Starting workers are never victims.  No sweep and no
\* admission ends a process that a spawn is still waiting on, and an
\* admission that the records it stopped do not satisfy launches nothing.
C20_StartingNeverVictims ==
  [][/\ (Sweep \/ Admission) =>
          \A c \in Callers :
            (Gating(c) /\ procs[calls[c].port].st = "alive") =>
              procs'[calls[c].port].st = "alive"
     /\ (/\ Admission
         /\ admit'.avail - SafetyMargin + SumMem(admit'.evicted) < admit'.needed)
          => \A c \in Callers : calls'[c].pc = "gating" => Gating(c)]_vars

\* where an alias stands: "starting" while a spawn waits on its health
\* gate, "ready" while it has a record, else "absent"
PhaseOf(ws, cs, a) ==
  IF \E c \in Callers : cs[c].pc = "gating" /\ cs[c].alias = a THEN "starting"
  ELSE IF Has(ws, a) THEN "ready"
  ELSE "absent"

\* C21: Per-alias state machine.  An alias is never starting and registered
\* at once; it moves only absent -> starting, starting -> ready,
\* starting -> absent and ready -> absent (never absent -> ready, never
\* ready -> starting); and whenever an alias that can be launched is
\* absent and the lock is free, a request for it starts a new cycle.
C21_AliasStateMachine ==
  /\ [](\A c \in Callers : Gating(c) => ~Has(workers, calls[c].alias))
  /\ [][\A a \in Aliases :
          LET from == PhaseOf(workers, calls, a)
              to == PhaseOf(workers', calls', a)
          IN from # to =>
               <<from, to>> \in {<<"absent", "starting">>, <<"starting", "ready">>,
                                 <<"starting", "absent">>, <<"ready", "absent">>}]_vars
  /\ [](\A a \in Aliases, c \in Callers :
          (/\ PhaseOf(workers, calls, a) = "absent"
           /\ Launchable(a)
           /\ running /\ lock = NoCaller /\ waiters = <<>>
           /\ calls[c].pc = "idle"
           /\ WithinBounds(a))
            => ENABLED (SpawnArrive(c, a) /\ calls'[c].pc = "gating"))

\* a full cycle and the start of the next: the first worker was registered,
\* then stopped (the stop answered true), and a spawn now waits on the
\* health gate of a second process while the registry is empty
C21_Witness ==
  /\ last.ret = "true"
  /\ workers = <<>>
  /\ procs[BasePort].st = "killed"
  /\ \E c \in Callers : Gating(c) /\ calls[c].port = BasePort + 1

\* the startup timeout of the spawn of request c has run out
Elapsed(c) == now - calls[c].start >= StartupTimeout

\* C22: Health gate outcome.  A health gate ends in one of three ways
\* only: within the startup time with the process found dead (failure, no
\* record), within the startup time with the process alive and answering
\* 200 (the record is inserted and returned), or with the startup time
\* run out (failure, no record); until then the spawn keeps waiting.
\* Each of the three is open as soon as its condition holds, and every
\* health gate whose deadline the clock can reach does end.
C22_HealthGateOutcome ==
  /\ [][\A c \in Callers :
          (Gating(c) /\ calls'[c].pc # "gating") =>
            LET p == calls[c].port
                a == calls[c].alias
            IN /\ calls'[c].pc = "idle" /\ lock' = NoCaller /\ procs' = procs
               /\ \/ /\ ~Elapsed(c) /\ procs[p].st = "exited"
                     /\ last'.ret = "startupfail" /\ workers' = workers
                  \/ /\ ~Elapsed(c) /\ procs[p].st = "alive"
                     /\ last' = Ret("ok", p)
                     /\ Has(workers', a) /\ Get(workers', a).process = p
                  \/ /\ Elapsed(c)
                     /\ last'.ret = "startupfail" /\ workers' = workers]_vars
  /\ [](\A c \in Callers :
          Gating(c) =>
            /\ (~Elapsed(c) /\ procs[calls[c].port].st = "exited")
                 => ENABLED GateDied(c)
            /\ (~Elapsed(c) /\ procs[calls[c].port].st = "alive")
                 => ENABLED GateReady(c)
            /\ Elapsed(c) => ENABLED GateTimeout(c))
  /\ \A c \in Callers :
       (Gating(c) /\ calls[c].start + StartupTimeout <= MaxTime) ~> ~Gating(c)

\* a startup has failed before its timeout ran out, because the process
\* was found dead
C22_Witness ==
  /\ last.ret = "startupfail"
  /\ now < StartupTimeout
  /\ lock = NoCaller
  /\ procs[BasePort].st = "exited"
  /\ workers = <<>>

\* C23: No cancellation of an in-flight spawn.  While a spawn of x waits
\* on its health gate, POST /stop/x answers false and POST /stop-all
\* answers too, and neither touches the spawn, the lock or the process it
\* waits on; the process ends only by itself; and when the gate succeeds
\* the record of x is inserted with that process still alive.
C23_NoCancellation ==
  [][\A c \in Callers :
       Gating(c) =>
         LET x == calls[c].alias
             p == calls[c].port
         IN /\ Stop(x) => last'.ret = "false" /\ workers' = workers
            /\ (Stop(x) \/ StopAll) =>
                 calls'[c] = calls[c] /\ lock' = lock /\ procs'[p] = procs[p]
            /\ (procs[p].st = "alive" /\ procs'[p].st # "alive") => ProcExit(p)
            /\ calls'[c].pc # "gating" =>
                 (GateDied(c) \/ GateReady(c) \/ GateTimeout(c))
            /\ GateReady(c) =>
                 /\ Has(workers', x)
                 /\ Get(workers', x).process = p
                 /\ procs'[p].st = "alive"]_vars

\* a spawn waits on the second process, alive, while the last answer given
\* was the false of a stop and the first process has been ended by the
\* manager
C23_Witness ==
  /\ last.ret = "false"
  /\ procs[BasePort].st = "killed"
  /\ admit.evicted = <<>>
  /\ \E c \in Callers :
       /\ Gating(c)
       /\ lock = c
       /\ calls[c].port = BasePort + 1
       /\ procs[calls[c].port].st = "alive"

\* the spawn requests past the lock: their process launched, waiting on
\* the health gate
InFlight == {c \in Callers : Gating(c)}

\* C24: Coarse lock.  The lock is held exactly while a spawn waits on its
\* health gate, by that spawn, so at most one spawn is in flight; while it
\* is held, a request that arrives only queues, whatever its alias and
\* whether or not the alias has a record, and no queued request takes the
\* lock, returns, or changes the registry, the port counter or a process.
C24_CoarseLock ==
  /\ [](/\ Cardinality(InFlight) <= 1
        /\ \A c \in Callers : Gating(c) <=> lock = c
        /\ lock \in Callers \cup {NoCaller}
        /\ \A c \in Callers : calls[c].pc = "waiting" <=>
                                \E i \in 1..Len(waiters) : waiters[i] = c)
  /\ [][lock # NoCaller =>
          \A d \in Callers \ {lock} :
            /\ calls'[d].pc \notin {"gating"}
            /\ calls[d].pc = "waiting" => calls'[d] = calls[d]
            /\ (calls[d].pc = "idle" /\ calls'[d].pc # "idle") =>
                 /\ calls'[d].pc = "waiting"
                 /\ lock' = lock
                 /\ UNCHANGED <<workers, next_port, procs, last, admit>>]_vars

\* a request for an alias that has a record waits for the lock while the
\* spawn of another alias is on its health gate
C24_Witness ==
  \E c, d \in Callers :
    /\ Gating(c)
    /\ lock = c
    /\ calls[d].pc = "waiting"
    /\ Has(workers, calls[d].alias)
    /\ calls[d].alias # calls[c].alias

\* C25: Remove before terminate.  No state shows a record whose process
\* the manager has ended; POST /stop of a registered alias leaves, in one
\* step, the record gone and its process not alive, whether or not the
\* process was still alive; and whenever an alias that can be launched
\* has no record and the lock is free, a request for it launches a new
\* process on the next port.
C25_RemoveBeforeTerminate ==
  /\ [](\A k \in 1..Len(workers) : procs[workers[k].process].st # "killed")
  /\ [][\A a \in Aliases :
          (Stop(a) /\ Has(workers, a)) =>
            /\ workers' = Pop(workers, a)
            /\ procs'[Get(workers, a).process].st # "alive"
            /\ \A p \in Ports \ {Get(workers, a).process} : procs'[p] = procs[p]]_vars
  /\ [](\A a \in Aliases, c \in Callers :
          (/\ ~Has(workers, a) /\ Launchable(a)
           /\ running /\ lock = NoCaller /\ waiters = <<>>
           /\ calls[c].pc = "idle" /\ WithinBounds(a))
            => ENABLED (/\ SpawnArrive(c, a)
                        /\ calls'[c].port = next_port
                        /\ procs'[next_port].st = "alive"))

\* a stop has answered true: the record of the first process is gone and
\* the process ended, the record of the second is still there, its process
\* alive
C25_Witness ==
  /\ last.ret = "true"
  /\ lock = NoCaller
  /\ procs[BasePort].st = "killed"
  /\ Len(workers) = 1
  /\ workers[1].process = BasePort + 1
  /\ procs[BasePort + 1].st = "alive"

\* C26: Graceful then forceful.  A stop sends nothing, SIGTERM, or SIGTERM
\* and then SIGKILL, never SIGKILL first; SIGKILL is sent only from the
\* grace period with the process still alive; while the signals are being
\* sent the record is already gone; when the stop returns it returns true
\* with the process not alive; and a stop of a record whose process has
\* already exited returns true in the same step, with the record removed
\* and no process changed.
C26_GracefulThenForceful ==
  /\ [](/\ term.sent \in {<<>>, <<"SIGTERM">>, <<"SIGTERM", "SIGKILL">>}
        /\ term.pc = "grace" =>
             /\ term.sent = <<"SIGTERM">>
             /\ term.pid \notin {workers[k].process : k \in 1..Len(workers)})
  /\ [][/\ (term'.sent # term.sent /\ Len(term'.sent) = 2) =>
             /\ term.pc = "grace"
             /\ procs[term.pid].st = "alive"
        /\ (term.pc = "grace" /\ term'.pc = "idle") =>
             /\ last'.ret = "true"
             /\ procs'[term.pid].st # "alive"
        /\ \A a \in Aliases :
             (/\ StopCall(a)
              /\ Has(workers, a)
              /\ procs[Get(workers, a).process].st # "alive") =>
               /\ last'.ret = "true"
               /\ workers' = Pop(workers, a)
               /\ term'.pc = "idle"
               /\ procs' = procs]_vars

\* a stop has returned true after SIGTERM and SIGKILL: the process is gone
\* and so is its record
C26_Witness ==
  /\ term.pc = "idle"
  /\ term.sent = <<"SIGTERM", "SIGKILL">>
  /\ last.ret = "true"
  /\ procs[term.pid].st = "killed"
  /\ \A k \in 1..Len(workers) : workers[k].process # term.pid

\* C27 (as claimed): Termination race.  A POST /stop that came in while
\* the same alias was being stopped is answered as a success.
C27_TerminationRace ==
  [][StopQueued => last'.ret = "true"]_vars

\* C28: Record field stability.  Every record carries the port of its own
\* process and the path, type and footprint the configuration gives its
\* alias; from one state to the next a record that stays registered keeps
\* its process, port, model_path, model_type, memory_gb and started_at,
\* and its request_count and last_used do not go down; the record a
\* successful health gate inserts carries the footprint its admission
\* asked room for, and the footprint an eviction credits for a record is
\* the one that record carries.
C28_FieldStability ==
  /\ [](\A k \in 1..Len(workers) :
          LET w == workers[k] IN
            /\ w.port = w.process
            /\ w.model_path = Models[w.alias].path
            /\ w.model_type = Models[w.alias].type
            /\ w.memory_gb = Footprint(w.alias))
  /\ [][/\ \A a \in Aliases :
             (Has(workers, a) /\ Has(workers', a)) =>
               LET w == Get(workers, a)
                   v == Get(workers', a)
               IN /\ v.process = w.process /\ v.port = w.port
                  /\ v.model_path = w.model_path /\ v.model_type = w.model_type
                  /\ v.memory_gb = w.memory_gb /\ v.started_at = w.started_at
                  /\ v.request_count >= w.request_count
                  /\ v.last_used >= w.last_used
        /\ \A c \in Callers :
             GateReady(c) =>
               Get(workers', calls[c].alias).memory_gb = admit.needed
        /\ Admission =>
             \A i \in 1..Len(admit'.evicted) :
               admit'.evicted[i].memory_gb
                 = Get(workers, admit'.evicted[i].alias).memory_gb]_vars

\* one record was evicted and its footprint credited; the record that is
\* left has been touched after the clock moved and still has the
\* started_at of its launch
C28_Witness ==
  /\ Len(admit.evicted) = 1
  /\ admit.evicted[1].memory_gb = Footprint(admit.evicted[1].alias)
  /\ Len(workers) = 1
  /\ workers[1].request_count = 1
  /\ workers[1].last_used > workers[1].started_at

\* C29: Status is read-only and complete.  The step that builds a status
\* response changes no record, timestamp or counter, nor the port counter,
\* the lock or a process; the response has one entry for each registered
\* alias and no other, each with the port, footprint and request count
\* of that alias's record.
C29_StatusReadOnly ==
  [][(report'.made /\ ~report.made) =>
       /\ UNCHANGED <<workers, next_port, lock, waiters, calls, procs, now,
                      running, reaper, admit, last>>
       /\ {s.alias : s \in report'.workers} = Keys(workers)
       /\ Cardinality(report'.workers) = Len(workers)
       /\ \A s \in report'.workers :
            /\ s.port = Get(workers, s.alias).port
            /\ s.memory_gb = Get(workers, s.alias).memory_gb
            /\ s.request_count = Get(workers, s.alias).request_count]_vars

\* a status response lists two workers on different ports, one of them
\* used after the clock moved, while the registry still holds exactly
\* those two records
C29_Witness ==
  /\ report.made
  /\ Cardinality(report.workers) = 2
  /\ Len(workers) = 2
  /\ \E s, t \in report.workers : s.port # t.port /\ s.memory_gb # t.memory_gb
  /\ \E k \in 1..Len(workers) : workers[k].last_used > workers[k].started_at

\* the record of process p is registered with last_used = t
Registered(p, t) ==
  \E k \in 1..Len(workers) : workers[k].process = p /\ workers[k].last_used = t

\* C30: Reaper uses the stop path and eventually reaps.  A sweep does to
\* each record it removes exactly what POST /stop does (the record
\* popped, the process not alive afterwards, true returned), and it
\* leaves as it is every record whose idle time does not exceed the idle
\* timeout; and a record whose last_used stays the same (within the reach
\* of the clock) does not stay registered for ever.
C30_ReaperEventuallyReaps ==
  /\ [][Sweep =>
          \A k \in 1..Len(workers) :
            LET w == workers[k]
                r == stop_worker(Here, w.alias)
            IN IF now - w.last_used > IdleTimeout
                 THEN /\ ~Has(workers', w.alias)
                      /\ r.ret
                      /\ procs'[w.process] = r.procs[w.process]
                      /\ procs'[w.process].st # "alive"
                 ELSE /\ Has(workers', w.alias)
                      /\ Get(workers', w.alias) = w
                      /\ procs'[w.process] = procs[w.process]]_vars
  /\ \A p \in Ports, t \in 0..MaxTime :
       (Registered(p, t) /\ t + IdleTimeout < MaxTime) ~> ~Registered(p, t)

\* a sweep has reaped one record; the other, touched after the clock
\* moved so that it was not idle, is still registered with its process
\* alive
C30_Witness ==
  /\ last = Ret("swept", 1)
  /\ Len(workers) = 1
  /\ workers[1].request_count = 1
  /\ workers[1].last_used = now
  /\ workers[1].started_at < now
  /\ procs[workers[1].process].st = "alive"
  /\ \E p \in Ports : procs[p].st = "killed"

\* C31 (as claimed): No orphan process.  Every process the manager launched
\* that is still alive is owned by a record of the registry or is the one
\* the spawn under way is health-gating; so after a spawn has failed on
\* the startup timeout the process it launched is not alive.
C31_NoOrphanProcess ==
  \A p \in Ports : procs[p].st = "alive" => p \in Owned \cup Gated

\* C32 (as claimed): Shutdown leaves nothing running.  Once the shutdown
\* hook has run (_running false, then stop_all) the registry is and stays
\* empty and no process the manager launched is alive, also when a spawn
\* was on its health gate at that moment.
C32_ShutdownLeavesNothing ==
  ~running => (workers = <<>> /\ \A p \in Ports : procs[p].st # "alive")

\* the launch budget of the run is spent: the lock is free and the request
\* at the head of the queue would need a launch the bounds do not allow
BudgetSpent ==
  /\ lock = NoCaller
  /\ waiters # <<>>
  /\ ~CanAcquire(Head(waiters))

\* C33: Lock release and progress.  The lock is held only by the request on
\* its health gate; every way out of spawn_worker (reuse, success, 404,
\* unknown kind, failed startup) leaves the lock free; a free lock with
\* requests queued can always be taken by the first of them; and, every
\* health gate ending, each queued request gets the lock and returns.
C33_LockReleaseAndProgress ==
  /\ [](lock = NoCaller \/ Gating(lock))
  /\ [][\A c \in Callers :
          /\ (calls[c].pc # "idle" /\ calls'[c].pc = "idle") =>
               /\ lock' = NoCaller
               /\ last'.ret \in {"ok", "notfound", "badkind", "startupfail"}
          /\ \A a \in Aliases :
               (BodyRuns(c, a) /\ calls'[c].pc = "idle") =>
                 /\ lock' = NoCaller
                 /\ last'.ret \in {"ok", "notfound", "badkind"}]_vars
  /\ [](\A c \in Callers : CanAcquire(c) <=> ENABLED SpawnAcquire(c))
  /\ [](\A c \in Callers : Gating(c) => ENABLED GateEnds(c))
  /\ \A c \in Callers :
       (calls[c].pc = "waiting") ~> (calls[c].pc = "idle" \/ BudgetSpent)

\* a request that had queued behind a startup of the same alias got the
\* lock when that startup failed and is on its own health gate, while the
\* request that failed has queued again behind it
C33_Witness ==
  /\ last.ret = "startupfail"
  /\ \E c \in Callers :
       /\ Gating(c) /\ calls[c].rival /\ lock = c
       /\ waiters # <<>>
       /\ calls[Head(waiters)].pc = "waiting"

\* C34: Failed startup is not rolled back.  The port counter goes up by
\* exactly one in each run of spawn_worker that gets past the lookup of the
\* alias (also when the kind turns out unknown), by nothing on reuse and
\* on 404, and in no other step; the records evicted for an attempt are
\* out of the registry with their processes ended, whatever becomes of the
\* attempt; a process ended stays ended; and a startup that fails changes
\* neither the registry, the processes nor the counter, so that the port
\* of the attempt stays below the counter and what was evicted stays out.
C34_NoRollback ==
  [][/\ next_port' \in {next_port, next_port + 1}
     /\ next_port' # next_port =>
          \E c \in Callers, a \in Aliases : BodyRuns(c, a)
     /\ \A p \in Ports :
          procs[p].st \in {"killed", "exited"} => procs'[p] = procs[p]
     /\ \A c \in Callers, a \in Aliases :
          BodyRuns(c, a) =>
            IF Has(workers, a) \/ a \notin DOMAIN Models
              THEN next_port' = next_port
              ELSE /\ next_port' = next_port + 1
                   /\ Keys(workers') = Keys(workers) \ LoggedAliases(admit'.evicted)
                   /\ \A k \in 1..Len(workers) :
                        workers[k].alias \in LoggedAliases(admit'.evicted)
                          => procs'[workers[k].process].st # "alive"
                   /\ ~KnownType(Models[a].type) =>
                        /\ last'.ret = "badkind"
                        /\ calls'[c].pc = "idle"
                        /\ procs'[next_port].st = "none"
     /\ \A c \in Callers :
          (GateDied(c) \/ GateTimeout(c)) =>
            /\ last'.ret = "startupfail"
            /\ UNCHANGED <<workers, procs, next_port>>
            /\ next_port' > calls[c].port
            /\ \A i \in 1..Len(admit.evicted) :
                 ~Has(workers', admit.evicted[i].alias)]_vars

\* a spawn of an alias of unknown kind has failed after a record was
\* evicted for it: the registry is empty, the evicted process is ended,
\* and two ports are used up although one process was launched
C34_Witness ==
  /\ last.ret = "badkind"
  /\ Len(admit.evicted) = 1
  /\ workers = <<>>
  /\ procs[BasePort].st = "killed"
  /\ next_port = BasePort + 2
  /\ procs[BasePort + 1].st = "none"

\* what the two manager calls of one get_worker do to the record: /touch
\* is handled in a step of its own, after /spawn was answered 200; the
\* answer of /spawn names a record that is registered then, with the
\* request_count it had (0 if it was just inserted); /touch, finding that
\* record, adds exactly one to its request_count and leaves it registered;
\* and the return of get_worker changes nothing at the manager
SpawnThenTouch ==
  [][/\ (sup.pc # "touch" /\ sup'.pc = "touch") =>
          /\ KeptIn(workers', sup')
          /\ Get(workers', sup'.alias).request_count =
               IF Has(workers, sup'.alias)
                 THEN Get(workers, sup'.alias).request_count ELSE 0
     /\ (sup.pc # "touched" /\ sup'.pc = "touched") =>
          /\ sup.pc = "touch"
          /\ sup'.hit = KeptIn(workers, sup)
          /\ UNCHANGED <<next_port, lock, waiters, calls, procs, last>>
          /\ KeptIn(workers, sup) =>
               /\ KeptIn(workers', sup)
               /\ Get(workers', sup.alias).request_count =
                    Get(workers, sup.alias).request_count + 1
     /\ (sup.pc = "touched" /\ sup'.pc # "touched") =>
          /\ sup' = IdleSup
          /\ UNCHANGED <<workers, procs, next_port, lock, calls>>]_vars

\* C35 (as claimed): Gateway get_worker is spawn-then-touch.  get_worker
\* posts /spawn and then /touch as two separate manager calls; when no
\* stop, eviction or reap of the alias falls between the two, the
\* request_count of the record rises by exactly one per get_worker, and
\* the worker returned is still registered when get_worker returns.
C35_SpawnThenTouch ==
  /\ SpawnThenTouch
  /\ []((sup.pc = "touched" /\ sup.hit) => KeptIn(workers, sup))

\* C35 (amended): ... when no stop, eviction or reap of the alias falls
\* between the answer of /spawn and the return of get_worker, the
\* request_count rises by exactly one and the worker returned is still
\* registered when get_worker returns: from the answer of /spawn to the
\* return, the record leaves the registry only by a stop of the alias, a
\* stop-all, a reaper sweep or the eviction of a spawn.
C35_SpawnThenTouchAmended ==
  /\ SpawnThenTouch
  /\ [][(sup.pc \in {"touch", "touched"} /\ KeptIn(workers, sup)
           /\ ~KeptIn(workers', sup)) =>
          \/ Stop(sup.alias) /\ last'.ret = "true"
          \/ StopAll
          \/ Sweep
          \/ /\ \E c \in Callers, a \in Aliases : BodyRuns(c, a)
             /\ sup.alias \in LoggedAliases(admit'.evicted)]_vars

\* /touch of a get_worker call has found the record /spawn had answered
\* and counted the request, a /stop of another alias having been served
\* between the two calls; the worker is registered as get_worker returns
C35_Witness ==
  /\ sup.pc = "touched"
  /\ sup.hit
  /\ KeptIn(workers, sup)
  /\ Get(workers, sup.alias).request_count = 1
  /\ last.ret = "false"

\* the token of an "Authorization: Bearer" header, if it is one
BearerToken(authorization) ==
  IF startswith(lower(authorization), <<"b", "e", "a", "r", "e", "r", " ">>)
    THEN strip(split_1(authorization)) ELSE <<>>

\* the request at the middleware carries the configured key, as a Bearer
\* token or as X-API-Key (blanks around either side do not count)
CarriesKey ==
  \E v \in {BearerToken(req.authorization), strip(req.x_api_key)} :
    v # <<>> /\ v = strip(req.api_key)

\* the middleware has decided on the request
Decided == req.pc \in {"routed", "answered"}
Rejected ==
  req.pc = "answered" /\ req.status = 401 /\ req.handler = "none"
UnderV1 == startswith(req.path, <<"/", "v", "1", "/">>)

====
